---- MODULE Spec2Model ----
(***************************************************************************)
(* Model of sisyphosdbx/main.py: the SisyphosDBX controller, its two       *)
(* decorators (with_sync_paused, if_connected) and the collaborators it    *)
(* drives (Monitor, SisyphosClient, CONF, the local file system).          *)
(*                                                                         *)
(* Every method is a pure operator from a program state (a record) and its *)
(* arguments to a result [s, ret, exc]: the state it leaves, the value it  *)
(* returns and the exception it raises ("none" when it returns).  Each     *)
(* public call is one action that applies the operator to the current      *)
(* state.  What the collaborators and the user answer during a call (the   *)
(* outcome of a download, the answers to the prompts) is the field env of  *)
(* the state, chosen by the action.  The connected signal belongs to the   *)
(* monitor's thread: it can change while a call waits, so env also says    *)
(* before which of the later reads of the signal it has changed.           *)
(***************************************************************************)
EXTENDS Naturals, Sequences, FiniteSets, TLC

VARIABLES
    phase,       \* "off", "imported" (module loaded), "ready" (constructed), "crashed"
    FIRST_SYNC,  \* class attribute SisyphosDBX.FIRST_SYNC, computed at import
    conf,        \* CONF: the persisted configuration
    client,      \* SisyphosClient attributes the controller sets
    mon,         \* Monitor: running / connected signals, stopped_by_user
    fs,          \* local file system: what is at each location
    revs,        \* Dropbox paths that have a stored local revision
    trace,       \* what the last call did, in order
    lastCall     \* the last call: operation, argument, result, state before

vars == <<phase, FIRST_SYNC, conf, client, mon, fs, revs, trace, lastCall>>

(***************************************************************************)
(* Strings.  A path is a sequence of characters, so that lower() and       *)
(* normpath() are computed, not assumed.                                   *)
(***************************************************************************)
Str_a        == <<"/", "a">>
Str_A        == <<"/", "A">>
Str_a_slash  == <<"/", "a", "/">>
Str_b        == <<"/", "b">>
EmptyStr     == <<>>

\* The paths callers pass to exclude_folder / include_folder.
PathArgs == {Str_a, Str_A, Str_a_slash, Str_b}

\* str.lower() on one character.
LowerChar(c) ==
    CASE c = "A" -> "a"
      [] c = "B" -> "b"
      [] OTHER   -> c

\* str.lower()
Lower(str) == [i \in DOMAIN str |-> LowerChar(str[i])]

\* The paths exclude_folder and include_folder work with: dbx_path.lower()
LowerArgs == {Lower(p) : p \in PathArgs}

\* x in list
InSeq(x, seq) == \E i \in DOMAIN seq : seq[i] = x

RECURSIVE FilterOut(_, _)

\* str.split("/"): the components, empty ones included
RECURSIVE Split(_, _)
Split(str, cur) ==
    IF str = <<>> THEN <<cur>>
    ELSE IF Head(str) = "/" THEN <<cur>> \o Split(Tail(str), <<>>)
    ELSE Split(Tail(str), Append(cur, Head(str)))

\* "/".join(comps)
RECURSIVE Join(_)
Join(comps) ==
    IF comps = <<>> THEN <<>>
    ELSE IF Len(comps) = 1 THEN comps[1]
    ELSE comps[1] \o <<"/">> \o Join(Tail(comps))

\* The loop of posixpath.normpath over the components.
RECURSIVE NormComps(_, _, _)
NormComps(comps, new_comps, initial_slashes) ==
    IF comps = <<>> THEN new_comps
    ELSE LET comp == Head(comps) IN
         IF comp = <<>> \/ comp = <<".">>
         THEN NormComps(Tail(comps), new_comps, initial_slashes)
         ELSE IF \/ comp # <<".", ".">>
                 \/ (initial_slashes = 0 /\ new_comps = <<>>)
                 \/ (new_comps # <<>> /\ new_comps[Len(new_comps)] = <<".", ".">>)
         THEN NormComps(Tail(comps), Append(new_comps, comp), initial_slashes)
         ELSE IF new_comps # <<>>
         THEN NormComps(Tail(comps), SubSeq(new_comps, 1, Len(new_comps) - 1),
                        initial_slashes)
         ELSE NormComps(Tail(comps), new_comps, initial_slashes)

StartsWith(str, n) == Len(str) >= n /\ \A i \in 1..n : str[i] = "/"

\* os.path.normpath (posixpath)
NormPath(path) ==
    IF path = <<>> THEN <<".">>
    ELSE LET initial_slashes ==
                 IF ~StartsWith(path, 1) THEN 0
                 ELSE IF StartsWith(path, 2) /\ ~StartsWith(path, 3) THEN 2
                 ELSE 1
             joined == Join(NormComps(Split(path, <<>>), <<>>, initial_slashes))
             res == [i \in 1..initial_slashes |-> "/"] \o joined
         IN IF res = <<>> THEN <<".">> ELSE res

(***************************************************************************)
(* Values                                                                  *)
(***************************************************************************)
None  == "None"
False == "False"
True  == "True"

\* Python truth of the values the model uses: None, False and "" are false.
Truthy(v) == v \notin {"None", "False", ""}

\* Local locations a sync root can be at.
HomeDropbox == "/home/Dropbox"
OtherDir    == "/B"
Locs == {HomeDropbox, OtherDir}

\* The top-level folders of the remote Dropbox, in listing order, as
\* FolderMetadata: path_display and path_lower.
RemoteFolders == << [path_display |-> Str_A, path_lower |-> Str_a],
                    [path_display |-> Str_b, path_lower |-> Str_b] >>
RemoteLower == {RemoteFolders[i].path_lower : i \in DOMAIN RemoteFolders}

\* What a collaborator's call can do: return, raise a
\* requests.exceptions.RequestException, or raise anything else.
Outcomes == {"ok", "RequestException", "OtherError"}

NoEntry   == [kind |-> "none", children |-> {}]
FileEntry == [kind |-> "file", children |-> {}]
DirEntry(children) == [kind |-> "dir", children |-> children]

Ev(kind, path) == [ev |-> kind, path |-> path]
Log(s, kind, path) == [s EXCEPT !.trace = Append(@, Ev(kind, path))]

\* The call has consulted the input `o` of env for the path f.
Mark(s, o, f) == [s EXCEPT !.env.read = @ \cup {[o |-> o, f |-> f]}]

Ret(s, v)   == [s |-> s, ret |-> v, exc |-> "none"]
Raise(s, e) == [s |-> s, ret |-> None, exc |-> e]

(***************************************************************************)
(* Collaborators                                                           *)
(***************************************************************************)
\* CONF.set(section, key, value)
CONF_set(s, key, value) ==
    Log([s EXCEPT !.conf[key] = value], "conf_set_" \o key, EmptyStr)

\* Monitor.start(): sets the running signal
Monitor_start(s) == Log([s EXCEPT !.mon.running = TRUE], "monitor_start", EmptyStr)

\* Monitor.stop(): clears the running signal
Monitor_stop(s) == Log([s EXCEPT !.mon.running = FALSE], "monitor_stop", EmptyStr)

\* SisyphosClient.to_local_path(dbx_path): the entry of the sync root the
\* Dropbox path names
to_local_path(s, dbx_path) == [root |-> s.client.dropbox_path, sub |-> NormPath(dbx_path)]

\* os.path.isdir(local_path)
isdir_local(s, local_path) ==
    /\ s.fs[local_path.root].kind = "dir"
    /\ local_path.sub \in s.fs[local_path.root].children

\* shutil.rmtree(local_path) of a folder inside the sync root
rmtree_local(s, local_path) ==
    Log([s EXCEPT !.fs[local_path.root].children = @ \ {local_path.sub}],
        "rmtree", local_path.sub)

\* SisyphosClient.set_local_rev(dbx_path, None): forgets the revision of dbx_path
set_local_rev_None(s, dbx_path) ==
    Log([s EXCEPT !.revs = @ \ {dbx_path}], "set_local_rev", dbx_path)

\* What a download of the folders `got` leaves: the folders on disk under the
\* sync root, with their revisions.
Downloaded(s, got) ==
    LET root == s.client.dropbox_path IN
    [s EXCEPT !.fs[root] = IF @.kind = "dir" THEN DirEntry(@.children \cup got) ELSE @,
              !.revs = IF s.fs[root].kind = "dir" THEN @ \cup got ELSE @]

\* SisyphosClient.get_remote_dropbox(path=dbx_path): downloads one folder
client_get_remote_dropbox_path(s, dbx_path) ==
    LET s1 == Mark(Log(s, "download", dbx_path), "dl", dbx_path)
        outcome == s.env.dl[dbx_path]
    IN IF outcome = "ok" THEN Ret(Downloaded(s1, {NormPath(dbx_path)}), True)
       ELSE Raise(s1, outcome)

\* SisyphosClient.get_remote_dropbox(): downloads everything not excluded
client_get_remote_dropbox(s) ==
    LET s1 == Mark(Log(s, "download_all", EmptyStr), "full", EmptyStr)
        got == {f \in RemoteLower : ~InSeq(f, s.client.excluded_folders)}
    IN IF s.env.full = "ok" THEN Ret(Downloaded(s1, got), True)
       ELSE Raise(s1, s.env.full)

(***************************************************************************)
(* SisyphosDBX: properties, pause / resume                                 *)
(***************************************************************************)
\* property syncing
syncing(s) == s.mon.running

\* A guard that never looks at the connection signal.
connected_always(s) == TRUE

\* property connected
connected(s) == s.mon.connected

\* A pause that flips the stopped-by-user mark instead of setting it.
pause_sync_flip(s) ==
    Monitor_stop(Log([s EXCEPT !.mon.stopped_by_user = ~@], "pause_sync", EmptyStr))

pause_sync(s) ==
    Monitor_stop(Log([s EXCEPT !.mon.stopped_by_user = TRUE], "pause_sync", EmptyStr))

resume_sync(s) ==
    Monitor_start(Log([s EXCEPT !.mon.stopped_by_user = FALSE], "resume_sync", EmptyStr))

(***************************************************************************)
(* The decorators                                                          *)
(***************************************************************************)
\* f(self, *args): the undecorated method named f, defined below
RECURSIVE call(_, _, _)

\* with_sync_paused(f): no try/finally, so an exception of f skips the resume
with_sync_paused(f, s, a) ==
    LET resume == syncing(s)
        s1 == IF resume THEN pause_sync(s) ELSE s
        r  == call(f, s1, a)
    IN IF r.exc # "none" THEN r
       ELSE IF resume THEN [r EXCEPT !.s = resume_sync(r.s)]
       ELSE r

\* A bare `except:` in place of the RequestException handler.
caught_by_bare_except(exc) == TRUE

\* except requests.exceptions.RequestException
caught_by_if_connected(exc) == exc = "RequestException"

\* The monitor's thread sets and clears the connected signal while the
\* controller waits for the user or the network.  A call made from the caller's
\* code reads the signal as the caller left it; the guards reached later in the
\* same call (include_folder inside select_excluded_folders, get_remote_dropbox
\* inside __init__) read it changed when env says so.
connection_at(f, s, a) ==
    CASE f = "with_sync_paused(include_folder)" ->
            Mark([s EXCEPT !.mon.connected = (@ # s.env.flip[Lower(a)])],
                 "flip", Lower(a))
      [] f = "get_remote_dropbox" ->
            Mark([s EXCEPT !.mon.connected = (@ # s.env.flip_full)],
                 "flip_full", EmptyStr)
      [] OTHER -> s

\* if_connected(f), from its read of self.connected on
if_connected_read(f, s, a) ==
    IF ~connected(s) THEN Ret(Log(s, "print_error", EmptyStr), False)
    ELSE LET r == call(f, s, a) IN
         IF r.exc # "none" /\ caught_by_if_connected(r.exc)
         THEN Ret(Log(r.s, "print_error", EmptyStr), False)
         ELSE r

\* if_connected(f)
if_connected(f, s, a) == if_connected_read(f, connection_at(f, s, a), a)

(***************************************************************************)
(* exclude_folder / include_folder                                         *)
(***************************************************************************)
\* exclude_folder without the `if dbx_path not in folders` test.
exclude_folder_body_append_always(s, dbx_path_arg) ==
    LET dbx_path == Lower(dbx_path_arg)
        folders == Append(s.conf.excluded_folders, dbx_path)
        s1 == CONF_set([s EXCEPT !.client.excluded_folders = folders],
                       "excluded_folders", folders)
        local_path == to_local_path(s1, dbx_path)
    IN IF isdir_local(s1, local_path) /\ s.env.rm[dbx_path] # "ok"
       THEN Raise(Log(Mark(s1, "rm", dbx_path), "rmtree_failed", local_path.sub),
                  s.env.rm[dbx_path])
       ELSE LET s2 == IF isdir_local(s1, local_path)
                      THEN rmtree_local(Mark(s1, "rm", dbx_path), local_path) ELSE s1
            IN Ret(set_local_rev_None(s2, dbx_path), None)

\* body of exclude_folder
exclude_folder_body(s, dbx_path_arg) ==
    LET dbx_path == Lower(dbx_path_arg)
        old == s.conf.excluded_folders
        folders == IF ~InSeq(dbx_path, old) THEN Append(old, dbx_path) ELSE old
        s1 == CONF_set([s EXCEPT !.client.excluded_folders = folders],
                       "excluded_folders", folders)
        local_path == to_local_path(s1, dbx_path)
    IN IF isdir_local(s1, local_path) /\ s.env.rm[dbx_path] # "ok"
       THEN Raise(Log(Mark(s1, "rm", dbx_path), "rmtree_failed", local_path.sub),
                  s.env.rm[dbx_path])
       ELSE LET s2 == IF isdir_local(s1, local_path)
                      THEN rmtree_local(Mark(s1, "rm", dbx_path), local_path) ELSE s1
            IN Ret(set_local_rev_None(s2, dbx_path), None)

\* @with_sync_paused def exclude_folder
exclude_folder(s, dbx_path) == with_sync_paused("exclude_folder", s, dbx_path)

\* [x for x in folders if osp.normpath(x) != dbx_path]
FilterOut(folders, dbx_path) ==
    IF folders = <<>> THEN <<>>
    ELSE IF NormPath(Head(folders)) # dbx_path
         THEN <<Head(folders)>> \o FilterOut(Tail(folders), dbx_path)
         ELSE FilterOut(Tail(folders), dbx_path)

\* include_folder without the early return for a folder that is not excluded.
include_folder_body_no_early_return(s, dbx_path_arg) ==
    LET dbx_path == Lower(dbx_path_arg)
        new_folders == FilterOut(s.conf.excluded_folders, dbx_path)
        s1 == CONF_set([s EXCEPT !.client.excluded_folders = new_folders],
                       "excluded_folders", new_folders)
        r == client_get_remote_dropbox_path(s1, dbx_path)
    IN IF r.exc # "none" THEN r ELSE Ret(r.s, None)

\* body of include_folder
include_folder_body(s, dbx_path_arg) ==
    LET dbx_path == Lower(dbx_path_arg)
        folders == s.conf.excluded_folders
    IN IF ~InSeq(dbx_path, folders)
       THEN Ret(Log(s, "already_included", dbx_path), None)
       ELSE LET new_folders == FilterOut(folders, dbx_path)
                s1 == CONF_set([s EXCEPT !.client.excluded_folders = new_folders],
                               "excluded_folders", new_folders)
                r == client_get_remote_dropbox_path(s1, dbx_path)
            IN IF r.exc # "none" THEN r ELSE Ret(r.s, None)

\* @if_connected @with_sync_paused def include_folder: the connectivity guard
\* wraps the pause wrapper
include_folder(s, dbx_path) == if_connected("with_sync_paused(include_folder)", s, dbx_path)

(***************************************************************************)
(* get_remote_dropbox, unlink                                              *)
(***************************************************************************)
\* body of get_remote_dropbox: the client's result is not returned
get_remote_dropbox_body(s, a) ==
    LET r == client_get_remote_dropbox(s)
    IN IF r.exc # "none" THEN r ELSE Ret(r.s, None)

\* @if_connected def get_remote_dropbox
get_remote_dropbox(s) == if_connected("get_remote_dropbox", s, None)

\* SisyphosClient.unlink(): drops the link to the account; the files, the
\* configuration and the monitor are not touched
client_unlink(s) == Log(s, "client_unlink", EmptyStr)

\* unlink with the client called before the monitor is stopped.
unlink_client_first(s) ==
    Monitor_stop(Log([client_unlink(s) EXCEPT !.mon.stopped_by_user = TRUE],
                     "stopped_by_user", EmptyStr))

unlink(s) ==
    LET s1 == Monitor_stop(Log([s EXCEPT !.mon.stopped_by_user = TRUE],
                               "stopped_by_user", EmptyStr))
    IN client_unlink(s1)

(***************************************************************************)
(* set_dropbox_directory and its prompt                                    *)
(***************************************************************************)
\* os.path.exists(path)
exists(s, path) == s.fs[path].kind # "none"

\* os.path.isdir(path)
isdir(s, path) == s.fs[path].kind = "dir"

\* os.path.samefile(a, b): the model has no links, two locations are the same
\* entity when they are the same path
samefile(s, a, b) == a = b

\* _ask_for_path(default) with the user's answers `prompts`, each
\* [res: what is typed, yes: the answer to the overwrite question].
\* The result carries the answers not yet read in `rest`.
RECURSIVE ask_for_path(_, _, _)
ask_for_path(s, default, prompts) ==
    IF prompts = <<>>
    THEN [val |-> None, exc |-> "NoInput", rest |-> <<>>]
    ELSE LET res == Head(prompts).res
             yes == Head(prompts).yes
             rest == Tail(prompts)
         IN IF res = ""
            THEN [val |-> default, exc |-> "none", rest |-> rest]
            ELSE IF exists(s, res)
            THEN IF yes = "q"
                 THEN [val |-> None, exc |-> "SystemExit", rest |-> rest]
                 ELSE IF yes = "y"
                 THEN [val |-> res, exc |-> "none", rest |-> rest]
                 ELSE ask_for_path(s, HomeDropbox, rest)
            \* neither branch assigned dropbox_path
            ELSE [val |-> None, exc |-> "UnboundLocalError", rest |-> rest]

\* The part of set_dropbox_directory after the paths are known.
move_dropbox_directory(s, old_path, new_path) ==
    IF exists(s, old_path) /\ exists(s, new_path) /\ samefile(s, old_path, new_path)
    THEN Ret(Log(s, "same_directory", EmptyStr), None)
    ELSE LET r ==
             IF isdir(s, old_path)
             THEN IF exists(s, new_path) /\ ~isdir(s, new_path)
                  \* shutil.rmtree of something that is not a directory
                  THEN Raise(Log(s, "rmtree_root_failed", EmptyStr), "NotADirectoryError")
                  ELSE LET s1 == IF exists(s, new_path)
                                 THEN Log([s EXCEPT !.fs[new_path] = NoEntry],
                                          "rmtree_root", EmptyStr)
                                 ELSE s
                       IN Ret(Log([s1 EXCEPT !.fs[new_path] = s.fs[old_path],
                                             !.fs[old_path] = NoEntry],
                                  "move_root", EmptyStr), None)
             ELSE IF exists(s, new_path)
                  \* os.makedirs of a path that exists
                  THEN Raise(Log(s, "makedirs_failed", EmptyStr), "FileExistsError")
                  ELSE Ret(Log([s EXCEPT !.fs[new_path] = DirEntry({})],
                               "makedirs", EmptyStr), None)
         IN IF r.exc # "none" THEN r
            ELSE Ret(CONF_set([r.s EXCEPT !.client.dropbox_path = new_path,
                                          !.client.rev_file = new_path],
                              "path", new_path), None)

\* body of set_dropbox_directory(new_path=None)
set_dropbox_directory_body(s, new_path_arg) ==
    LET old_path == s.conf.path
    IN IF new_path_arg = None
       THEN LET ask == ask_for_path(s, old_path, s.env.prompts)
            IN IF ask.exc # "none"
               THEN Raise(Log(s, "ask_for_path", EmptyStr), ask.exc)
               ELSE move_dropbox_directory(Log(s, "ask_for_path", EmptyStr),
                                           old_path, ask.val)
       ELSE move_dropbox_directory(s, old_path, new_path_arg)

\* @with_sync_paused def set_dropbox_directory
set_dropbox_directory(s, new_path) ==
    with_sync_paused("set_dropbox_directory", s, new_path)

(***************************************************************************)
(* select_excluded_folders                                                 *)
(***************************************************************************)
\* The loop over the listing: the folders answered "y", up to a "q".
RECURSIVE AskFolders(_, _, _)
AskFolders(entries, answers, new_folders) ==
    IF entries = <<>> THEN [val |-> new_folders, exc |-> "none"]
    ELSE IF Head(answers) = "q" THEN [val |-> new_folders, exc |-> "SystemExit"]
    ELSE AskFolders(Tail(entries), Tail(answers),
                    IF Head(answers) = "y"
                    THEN Append(new_folders, Head(entries).path_lower)
                    ELSE new_folders)

SeqToSet(seq) == {seq[i] : i \in DOMAIN seq}

\* for folder in new_folders: self.exclude_folder(folder)
RECURSIVE ExcludeAll(_, _)
ExcludeAll(s, folders) ==
    IF folders = <<>> THEN Ret(s, None)
    ELSE LET r == exclude_folder(s, Head(folders))
         IN IF r.exc # "none" THEN r ELSE ExcludeAll(r.s, Tail(folders))

\* for folder in removed_folders: self.include_folder(folder)
RECURSIVE IncludeAll(_, _)
IncludeAll(s, folders) ==
    IF folders = <<>> THEN Ret(s, None)
    ELSE LET r == include_folder(s, Head(folders))
         IN IF r.exc # "none" THEN r ELSE IncludeAll(r.s, Tail(folders))

\* set(old_folders) - set(new_folders)
removed_folders(old_folders, new_folders) == SeqToSet(old_folders) \ SeqToSet(new_folders)

\* self.client.excluded_folders = new_folders; CONF.set(...)
select_persist(r, new_folders) ==
    IF r.exc # "none" THEN r
    ELSE Ret(CONF_set([r.s EXCEPT !.client.excluded_folders = new_folders],
                      "excluded_folders", new_folders), None)

\* the second loop, over removed_folders; env.order is the order in which the
\* set is iterated
select_include(r1, order) ==
    IF r1.exc # "none" THEN r1 ELSE IncludeAll(r1.s, order)

\* if not self.FIRST_SYNC: the two loops
select_apply(s1, new_folders) ==
    IF ~s1.FIRST_SYNC
    THEN select_include(ExcludeAll(s1, new_folders), s1.env.order)
    ELSE Ret(s1, None)

\* the prompts, then the changes
select_asked(s1, asked) ==
    IF asked.exc # "none" THEN Raise(s1, asked.exc)
    ELSE select_persist(select_apply(s1, asked.val), asked.val)

\* body of select_excluded_folders
select_excluded_folders_body(s, a) ==
    IF s.env.ls # "ok"
    THEN Raise(Mark(Log(s, "list_folder", EmptyStr), "ls", EmptyStr), s.env.ls)
    ELSE select_asked(Mark(Log(s, "list_folder", EmptyStr), "ls", EmptyStr),
                      AskFolders(RemoteFolders, s.env.answers, <<>>))

\* @if_connected def select_excluded_folders
select_excluded_folders(s) == if_connected("select_excluded_folders", s, None)

\* The functions the decorators wrap.
call(f, s, a) ==
    CASE f = "exclude_folder" -> exclude_folder_body(s, a)
      [] f = "include_folder" -> include_folder_body(s, a)
      [] f = "with_sync_paused(include_folder)" -> with_sync_paused("include_folder", s, a)
      [] f = "get_remote_dropbox" -> get_remote_dropbox_body(s, a)
      [] f = "set_dropbox_directory" -> set_dropbox_directory_body(s, a)
      [] f = "select_excluded_folders" -> select_excluded_folders_body(s, a)

(***************************************************************************)
(* Construction                                                            *)
(***************************************************************************)
\* The class attribute FIRST_SYNC, evaluated when the module is imported.
first_sync(c, files) ==
    \/ ~Truthy(c.lastsync)
    \/ c.cursor = ""
    \/ files[c.path].kind # "dir"

\* time.time()
Now == "t1"

\* The timestamp written without the `if success:` test.
bootstrap_lastsync_always(r4) ==
    IF r4.exc # "none" THEN r4
    ELSE Ret(CONF_set(r4.s, "lastsync", Now), r4.ret)

\* if success: CONF.set("internal", "lastsync", time.time())
bootstrap_lastsync(r4) ==
    IF r4.exc # "none" THEN r4
    ELSE IF Truthy(r4.ret) THEN Ret(CONF_set(r4.s, "lastsync", Now), r4.ret)
    ELSE r4

\* cursor and lastsync are reset, then success = self.get_remote_dropbox()
bootstrap_download(r2) ==
    IF r2.exc # "none" THEN r2
    ELSE bootstrap_lastsync(
             get_remote_dropbox(CONF_set(CONF_set(r2.s, "cursor", ""), "lastsync", None)))

\* self.select_excluded_folders()
bootstrap_select(r1) ==
    IF r1.exc # "none" THEN r1
    ELSE bootstrap_download(select_excluded_folders(r1.s))

\* The bootstrap of __init__ (the body of `if self.FIRST_SYNC:`), which starts
\* with self.set_dropbox_directory()
bootstrap(s) == bootstrap_select(set_dropbox_directory(s, None))

\* self.client = SisyphosClient(); self.monitor = Monitor(self.client);
\* self.monitor.stopped_by_user = True
init_collaborators(s) ==
    [s EXCEPT !.client = [excluded_folders |-> s.conf.excluded_folders,
                          dropbox_path |-> s.conf.path,
                          rev_file |-> s.conf.path],
              !.mon.running = FALSE,
              !.mon.stopped_by_user = TRUE]

\* if self.FIRST_SYNC: ...
init_bootstrap(s0) == IF s0.FIRST_SYNC THEN bootstrap(s0) ELSE Ret(s0, None)

\* A constructor that resumes whatever `run` says.
init_run_always(r, run) ==
    IF r.exc # "none" THEN r
    ELSE Ret(resume_sync(r.s), None)

\* if run: self.resume_sync()
init_run(r, run) ==
    IF r.exc # "none" THEN r
    ELSE IF run THEN Ret(resume_sync(r.s), None)
    ELSE Ret(r.s, None)

\* SisyphosDBX.__init__(run): returns None
init(s, run) == init_run(init_bootstrap(init_collaborators(s)), run)

(***************************************************************************)
(* The state machine                                                       *)
(***************************************************************************)
\* How many times the path prompt is answered in one call.
MaxPrompts == 2

\* The overwrite question is asked only of a path that exists; an answer
\* that is never read is written "y".
PromptAnswers == [res : {""} \cup Locs, yes : {"y", "n", "q"}]
PromptSeqs == UNION {[1..n -> PromptAnswers] : n \in 1..MaxPrompts}
DefaultPrompts == <<[res |-> "", yes |-> "y"]>>
PromptsRead(files, default, prompts) ==
    /\ \A i \in DOMAIN prompts :
          prompts[i].yes # "y" => (prompts[i].res # "" /\ files[prompts[i].res].kind # "none")
    /\ LET ask == ask_for_path([fs |-> files], default, prompts)
       IN ask.exc # "NoInput" /\ ask.rest = <<>>

\* The answers to the yes/no question of each listed folder.
FolderAnswers == [DOMAIN RemoteFolders -> {"y", "n", "q"}]

\* What the downloads of one call do: every client.get_remote_dropbox(path)
\* of the call ends on its own.
Downloads == [LowerArgs -> Outcomes]

\* All orders in which a set can be iterated.
Perms(S) == {q \in [1..Cardinality(S) -> S] : \A i, j \in DOMAIN q : i # j => q[i] # q[j]}

\* The inputs of a call in which everything succeeds, nothing is chosen and
\* the connection stays as it is; `read` collects what the call consults.
DefaultEnv == [dl |-> [f \in LowerArgs |-> "ok"], full |-> "ok", ls |-> "ok",
               answers |-> [i \in DOMAIN RemoteFolders |-> "n"], order |-> <<>>,
               rm |-> [f \in LowerArgs |-> "ok"], prompts |-> <<>>,
               flip |-> [f \in LowerArgs |-> FALSE], flip_full |-> FALSE,
               read |-> {}]

\* An input the call never consulted is left at its default.
Canonical(env, read) ==
    /\ \A f \in LowerArgs :
           /\ [o |-> "dl", f |-> f] \notin read => env.dl[f] = "ok"
           /\ [o |-> "rm", f |-> f] \notin read => env.rm[f] = "ok"
           /\ [o |-> "flip", f |-> f] \notin read => ~env.flip[f]
    /\ [o |-> "flip_full", f |-> EmptyStr] \notin read => ~env.flip_full
    /\ [o |-> "full", f |-> EmptyStr] \notin read => env.full = "ok"
    /\ [o |-> "ls", f |-> EmptyStr] \notin read => env.ls = "ok"
    /\ ([o |-> "ls", f |-> EmptyStr] \notin read \/ env.ls # "ok")
           => env.answers = [i \in DOMAIN RemoteFolders |-> "n"]

\* The inputs of a call, with the listed folders given their outcomes.
EnvOf(ls, answers, full, flip_full, prompts, order, R, dlR, flipR, N, rmN) ==
    [dl |-> [f \in LowerArgs |-> IF f \in R THEN dlR[f] ELSE "ok"],
     full |-> full, ls |-> ls, answers |-> answers, order |-> order,
     rm |-> [f \in LowerArgs |-> IF f \in N THEN rmN[f] ELSE "ok"],
     prompts |-> prompts,
     flip |-> [f \in LowerArgs |-> IF f \in R THEN flipR[f] ELSE FALSE],
     flip_full |-> flip_full, read |-> {}]

\* The program state a call starts from.
Cur(env) == [conf |-> conf, client |-> client, mon |-> mon, fs |-> fs, revs |-> revs,
             FIRST_SYNC |-> FIRST_SYNC, trace |-> <<>>, env |-> env]

\* What SisyphosClient() reads from CONF when it is created.
FreshClient(c) == [excluded_folders |-> c.excluded_folders, dropbox_path |-> c.path,
                   rev_file |-> c.path]

\* No call has returned since the caller last took control.
NoCall == [op |-> "none"]
Idle == lastCall = NoCall

\* The call that was made and the state it left.
Called(op, arg, r) ==
    /\ conf' = r.s.conf
    /\ client' = r.s.client
    /\ mon' = r.s.mon
    /\ fs' = r.s.fs
    /\ revs' = r.s.revs
    /\ trace' = r.s.trace
    /\ lastCall' = [op |-> op, arg |-> arg, ret |-> r.ret, exc |-> r.exc,
                    env |-> [r.s.env EXCEPT !.prompts = <<>>, !.read = {}],
                    pre |-> [conf |-> conf, client |-> client, mon |-> mon,
                             fs |-> fs, revs |-> revs]]

\* Configurations a process can be started with: a fresh installation, with
\* nothing or something at the other location, and an installation that has
\* synced before.
FreshConf == [path |-> HomeDropbox, excluded_folders |-> <<>>, cursor |-> "",
              lastsync |-> None]
SyncedConf == [path |-> HomeDropbox, excluded_folders |-> <<>>, cursor |-> "c1",
               lastsync |-> "t0"]

Init ==
    /\ phase = "off"
    /\ FIRST_SYNC = FALSE
    /\ \/ /\ conf = FreshConf
          /\ fs \in {[l \in Locs |-> IF l = OtherDir THEN e ELSE NoEntry] :
                        e \in {NoEntry, FileEntry, DirEntry({})}}
          /\ revs = {}
       \/ /\ conf = SyncedConf
          /\ fs = [l \in Locs |-> IF l = HomeDropbox THEN DirEntry(RemoteLower) ELSE NoEntry]
          /\ revs = RemoteLower
    /\ client = FreshClient(conf)
    /\ mon \in [running : {FALSE}, connected : BOOLEAN, stopped_by_user : {FALSE}]
    /\ trace = <<>>
    /\ lastCall = NoCall

\* The module is imported: the class body evaluates FIRST_SYNC.
Import ==
    /\ Idle
    /\ phase = "off"
    /\ phase' = "imported"
    /\ FIRST_SYNC' = first_sync(conf, fs)
    /\ UNCHANGED <<conf, client, mon, fs, revs, trace, lastCall>>

\* SisyphosDBX(run): an exception leaves no controller and ends the process.
\* Inputs that are never read are left at their defaults.
Construct ==
    /\ Idle
    /\ phase = "imported"
    /\ \E prompts \in PromptSeqs :
          /\ PromptsRead(fs, conf.path, prompts)
          /\ ~FIRST_SYNC => prompts = DefaultPrompts
          /\ \E ls \in Outcomes :
                /\ (~FIRST_SYNC \/ ~mon.connected) => ls = "ok"
                /\ \E answers \in FolderAnswers :
                      /\ (~FIRST_SYNC \/ ~mon.connected \/ ls # "ok")
                             => answers = DefaultEnv.answers
                      /\ \E full \in Outcomes, flip_full \in BOOLEAN, run \in BOOLEAN :
                            /\ (~FIRST_SYNC \/ ls = "OtherError")
                                   => (full = "ok" /\ ~flip_full)
                            /\ (mon.connected = flip_full) => full = "ok"
                            /\ Canonical(
                                  EnvOf(ls, answers, full, flip_full, prompts, <<>>,
                                        {}, <<>>, <<>>, {}, <<>>),
                                  init(Cur(EnvOf(ls, answers, full, flip_full, prompts,
                                                 <<>>, {}, <<>>, <<>>, {}, <<>>)),
                                       run).s.env.read)
                            /\ Called("__init__", run,
                                      init(Cur(EnvOf(ls, answers, full, flip_full, prompts,
                                                     <<>>, {}, <<>>, <<>>, {}, <<>>)),
                                           run))
    /\ phase' = IF lastCall'.exc = "none" THEN "ready" ELSE "crashed"
    /\ UNCHANGED FIRST_SYNC

\* The process ends; the configuration and the files stay.
Exit ==
    /\ Idle
    /\ phase = "ready"
    /\ phase' = "off"
    /\ mon' = [mon EXCEPT !.running = FALSE, !.stopped_by_user = FALSE]
    /\ client' = FreshClient(conf)
    /\ UNCHANGED <<FIRST_SYNC, conf, fs, revs, trace, lastCall>>

\* The monitor's connection signal follows the network.
ConnectionChange ==
    /\ Idle
    /\ mon' = [mon EXCEPT !.connected = ~@]
    /\ UNCHANGED <<phase, FIRST_SYNC, conf, client, fs, revs, trace, lastCall>>

PauseSync ==
    /\ Idle
    /\ phase = "ready"
    /\ Called("pause_sync", None, Ret(pause_sync(Cur(DefaultEnv)), None))
    /\ UNCHANGED <<phase, FIRST_SYNC>>

ResumeSync ==
    /\ Idle
    /\ phase = "ready"
    /\ Called("resume_sync", None, Ret(resume_sync(Cur(DefaultEnv)), None))
    /\ UNCHANGED <<phase, FIRST_SYNC>>

Unlink ==
    /\ Idle
    /\ phase = "ready"
    /\ Called("unlink", None, Ret(unlink(Cur(DefaultEnv)), None))
    /\ UNCHANGED <<phase, FIRST_SYNC>>

GetRemoteDropbox ==
    /\ Idle
    /\ phase = "ready"
    /\ \E full \in Outcomes :
          /\ ~mon.connected => full = "ok"
          /\ Called("get_remote_dropbox", None,
                 get_remote_dropbox(Cur([DefaultEnv EXCEPT !.full = full])))
    /\ UNCHANGED <<phase, FIRST_SYNC>>

ExcludeFolder ==
    /\ Idle
    /\ phase = "ready"
    /\ \E dbx_path \in PathArgs, rm \in {"ok", "OSError"} :
          /\ rm # "ok" => isdir_local(Cur(DefaultEnv),
                                      to_local_path(Cur(DefaultEnv), Lower(dbx_path)))
          /\ Called("exclude_folder", dbx_path,
                 exclude_folder(Cur([DefaultEnv EXCEPT !.rm[Lower(dbx_path)] = rm]),
                                dbx_path))
    /\ UNCHANGED <<phase, FIRST_SYNC>>

IncludeFolder ==
    /\ Idle
    /\ phase = "ready"
    /\ \E dbx_path \in PathArgs, dl \in Outcomes :
          /\ dl # "ok" =>
                (mon.connected /\ InSeq(Lower(dbx_path), conf.excluded_folders))
          /\ Called("include_folder", dbx_path,
                 include_folder(Cur([DefaultEnv EXCEPT !.dl[Lower(dbx_path)] = dl]),
                                dbx_path))
    /\ UNCHANGED <<phase, FIRST_SYNC>>

SelectExcludedFolders ==
    /\ Idle
    /\ phase = "ready"
    /\ \E ls \in Outcomes :
          /\ ~mon.connected => ls = "ok"
          /\ \E answers \in FolderAnswers :
                /\ (~mon.connected \/ ls # "ok") => answers = DefaultEnv.answers
                /\ LET asked == AskFolders(RemoteFolders, answers, <<>>)
                       applies == /\ mon.connected /\ ls = "ok"
                                  /\ asked.exc = "none" /\ ~FIRST_SYNC
                       R == IF applies
                            THEN removed_folders(conf.excluded_folders, asked.val)
                            ELSE {}
                       N == IF applies THEN SeqToSet(asked.val) ELSE {}
                   IN \E order \in Perms(R), dlR \in [R -> Outcomes],
                         flipR \in [R -> BOOLEAN], rmN \in [N -> {"ok", "OSError"}] :
                         /\ Canonical(
                               EnvOf(ls, answers, "ok", FALSE, <<>>, order,
                                     R, dlR, flipR, N, rmN),
                               select_excluded_folders(
                                   Cur(EnvOf(ls, answers, "ok", FALSE, <<>>, order,
                                             R, dlR, flipR, N, rmN))).s.env.read)
                         /\ Called("select_excluded_folders", None,
                                   select_excluded_folders(
                                       Cur(EnvOf(ls, answers, "ok", FALSE, <<>>, order,
                                                 R, dlR, flipR, N, rmN))))
    /\ UNCHANGED <<phase, FIRST_SYNC>>

SetDropboxDirectory ==
    /\ Idle
    /\ phase = "ready"
    /\ \/ \E new_path \in Locs :
             Called("set_dropbox_directory", new_path,
                    set_dropbox_directory(Cur(DefaultEnv), new_path))
       \/ \E prompts \in PromptSeqs :
             /\ PromptsRead(fs, conf.path, prompts)
             /\ Called("set_dropbox_directory", None,
                       set_dropbox_directory(Cur([DefaultEnv EXCEPT !.prompts = prompts]),
                                             None))
    /\ UNCHANGED <<phase, FIRST_SYNC>>

\* The call has returned (or raised) and the caller goes on; a constructor that
\* raised has ended the process.
Return ==
    /\ ~Idle
    /\ lastCall' = NoCall
    /\ trace' = <<>>
    /\ phase' = IF phase = "crashed" THEN "off" ELSE phase
    /\ mon' = IF phase = "crashed"
              THEN [mon EXCEPT !.running = FALSE, !.stopped_by_user = FALSE] ELSE mon
    /\ client' = IF phase = "crashed" THEN FreshClient(conf) ELSE client
    /\ UNCHANGED <<FIRST_SYNC, conf, fs, revs>>

Next ==
    \/ Return
    \/ Import
    \/ Construct
    \/ Exit
    \/ ConnectionChange
    \/ PauseSync
    \/ ResumeSync
    \/ Unlink
    \/ GetRemoteDropbox
    \/ ExcludeFolder
    \/ IncludeFolder
    \/ SelectExcludedFolders
    \/ SetDropboxDirectory

Spec == Init /\ [][Next]_vars

(***************************************************************************)
(* Properties                                                              *)
(***************************************************************************)
PauseWrapped == {"exclude_folder", "include_folder", "set_dropbox_directory"}
Guarded == {"get_remote_dropbox", "include_folder", "select_excluded_folders"}

\* A call has just returned or raised.
LastCallIs(ops) == lastCall.op \in ops
Returned(ops) == lastCall.op \in ops /\ lastCall.exc = "none"

HasEv(tr, kind) == \E i \in DOMAIN tr : tr[i].ev = kind
CountEv(tr, kind) == Cardinality({i \in DOMAIN tr : tr[i].ev = kind})
Before(tr, kind1, kind2) ==
    \E i, j \in DOMAIN tr : tr[i].ev = kind1 /\ tr[j].ev = kind2 /\ i < j

\* The calls to the SisyphosClient that the trace records.
ClientCallEvents == {"download", "download_all", "list_folder", "set_local_rev",
                     "client_unlink"}
NoClientCalls(tr) == \A i \in DOMAIN tr : tr[i].ev \notin ClientCallEvents

\* C1: a pause-wrapped operation that returns normally leaves the running
\* signal as it found it, and does not call resume_sync when sync was paused.
C1_PauseResumeConserved ==
    Returned(PauseWrapped) =>
        /\ mon.running = lastCall.pre.mon.running
        /\ ~lastCall.pre.mon.running => ~HasEv(trace, "resume_sync")

\* C2: when sync was running and the body of a pause-wrapped operation raises
\* (anything but the user's request to quit, which ends the process), sync is
\* running again when the exception leaves the wrapper.
C2_ResumedOnException ==
    ( /\ LastCallIs(PauseWrapped)
      /\ lastCall.pre.mon.running
      /\ lastCall.exc \notin {"none", "SystemExit"} )
        => mon.running

\* C3: include_folder of an excluded folder, with sync running, whose download
\* fails with a network failure, returns False and leaves sync running.
C3_IncludeFailureReleasesPause ==
    ( /\ LastCallIs({"include_folder"})
      /\ lastCall.pre.mon.running
      /\ lastCall.pre.mon.connected
      /\ InSeq(Lower(lastCall.arg), lastCall.pre.conf.excluded_folders)
      /\ lastCall.env.dl[Lower(lastCall.arg)] = "RequestException" )
        => (lastCall.exc = "none" /\ lastCall.ret = False /\ mon.running)

\* C4: with the connected signal clear, a connectivity-guarded operation
\* returns False without running its body: no client call, no change of the
\* configuration, of the client, of the files or of the running signal; and a
\* constructor during which the signal stays clear makes no client call either.
C4_NotConnectedNoCalls ==
    /\ (LastCallIs(Guarded) /\ ~lastCall.pre.mon.connected) =>
          /\ lastCall.exc = "none"
          /\ lastCall.ret = False
          /\ NoClientCalls(trace)
          /\ conf = lastCall.pre.conf
          /\ client = lastCall.pre.client
          /\ fs = lastCall.pre.fs
          /\ revs = lastCall.pre.revs
          /\ mon.running = lastCall.pre.mon.running
    /\ ( /\ LastCallIs({"__init__"})
         /\ ~lastCall.pre.mon.connected
         /\ ~lastCall.env.flip_full ) => NoClientCalls(trace)

C4_Witness ==
    /\ LastCallIs({"include_folder"})
    /\ ~lastCall.pre.mon.connected
    /\ InSeq(Lower(lastCall.arg), lastCall.pre.conf.excluded_folders)
    /\ lastCall.ret = False

\* What the collaborator called first by a guarded operation did.
FirstOutcome ==
    CASE lastCall.op = "get_remote_dropbox" -> lastCall.env.full
      [] lastCall.op = "select_excluded_folders" -> lastCall.env.ls
      [] lastCall.op = "include_folder" ->
            IF InSeq(Lower(lastCall.arg), lastCall.pre.conf.excluded_folders)
            THEN lastCall.env.dl[Lower(lastCall.arg)]
            ELSE "ok"

\* C5: while connected, a RequestException inside a guarded operation becomes
\* the result False and never reaches the caller; any other exception reaches
\* the caller as it is.
C5_GuardConvertsNetworkFailure ==
    (LastCallIs(Guarded) /\ lastCall.pre.mon.connected) =>
        /\ lastCall.exc # "RequestException"
        /\ FirstOutcome = "RequestException" => (lastCall.exc = "none" /\ lastCall.ret = False)
        /\ FirstOutcome = "OtherError" => lastCall.exc = "OtherError"
        /\ (lastCall.op = "get_remote_dropbox" /\ FirstOutcome = "ok")
               => (lastCall.exc = "none" /\ lastCall.ret = None)
        /\ (lastCall.op = "include_folder" /\ FirstOutcome = "ok" /\ lastCall.env.rm = DefaultEnv.rm)
               => (lastCall.exc = "none" /\ lastCall.ret = None)

C5_Witness ==
    /\ LastCallIs({"include_folder"})
    /\ lastCall.pre.mon.connected
    /\ FirstOutcome = "OtherError"
    /\ HasEv(trace, "download")
    /\ lastCall.exc = "OtherError"

\* C6: a guarded operation that ends in a connectivity failure leaves the
\* persisted configuration as it was.
C6_FailureLeavesConfig ==
    (Returned(Guarded) /\ lastCall.ret = False) => conf = lastCall.pre.conf

\* The state a second call starts from, right after the call that returned.
Again(rm, dl) == Cur([DefaultEnv EXCEPT !.rm = [f \in LowerArgs |-> rm], !.dl = dl])

\* C7: exclude_folder(p) called again right after exclude_folder(p) returned
\* changes nothing: the excluded folders, the files, the revisions and the
\* running signal stay, p is listed once, its local folder is gone and its
\* revision is cleared.
C7_ExcludeIdempotent ==
    Returned({"exclude_folder"}) =>
        \A rm \in {"ok", "OSError"} :
            LET second == exclude_folder(Again(rm, DefaultEnv.dl), lastCall.arg)
                p == Lower(lastCall.arg)
            IN /\ second.exc = "none"
               /\ second.s.conf = conf
               /\ second.s.client = client
               /\ second.s.fs = fs
               /\ second.s.revs = revs
               /\ second.s.mon = mon
               /\ Cardinality({i \in DOMAIN conf.excluded_folders :
                                  conf.excluded_folders[i] = p}) = 1
               /\ ~isdir_local(Cur(DefaultEnv), to_local_path(Cur(DefaultEnv), p))
               /\ p \notin revs

C7_Witness ==
    /\ Returned({"exclude_folder"})
    /\ lastCall.arg = Str_A
    /\ HasEv(trace, "rmtree")
    /\ ~InSeq(Str_a, lastCall.pre.conf.excluded_folders)
    /\ InSeq(Str_a, conf.excluded_folders)

\* C8: while connected, include_folder(p) right after exclude_folder(p) leaves
\* p out of the excluded folders and downloads p exactly once.
C8_ExcludeIncludeRoundTrip ==
    (Returned({"exclude_folder"}) /\ mon.connected) =>
        \A dl \in Downloads :
            LET second == include_folder(Again("ok", dl), lastCall.arg)
            IN /\ ~InSeq(Lower(lastCall.arg), second.s.conf.excluded_folders)
               /\ ~InSeq(NormPath(Lower(lastCall.arg)), second.s.conf.excluded_folders)
               /\ CountEv(second.s.trace, "download") = 1

\* C9, as claimed: include_folder(p) with p not excluded makes no client call,
\* leaves the excluded folders alone and is not reported as an error.
C9_NoOpInclusion_AsClaimed ==
    ( /\ LastCallIs({"include_folder"})
      /\ ~InSeq(Lower(lastCall.arg), lastCall.pre.conf.excluded_folders) ) =>
        /\ NoClientCalls(trace)
        /\ conf = lastCall.pre.conf
        /\ client = lastCall.pre.client
        /\ lastCall.exc = "none"
        /\ lastCall.ret # False
        /\ ~HasEv(trace, "print_error")

\* C9, amended: include_folder(p) with p not excluded makes no client call and
\* leaves the excluded folders alone; while connected it returns None and
\* reports nothing, while not connected it returns the guard's False.
C9_NoOpInclusion ==
    ( /\ LastCallIs({"include_folder"})
      /\ ~InSeq(Lower(lastCall.arg), lastCall.pre.conf.excluded_folders) ) =>
        /\ NoClientCalls(trace)
        /\ conf = lastCall.pre.conf
        /\ client = lastCall.pre.client
        /\ fs = lastCall.pre.fs
        /\ lastCall.exc = "none"
        /\ lastCall.pre.mon.connected =>
              (lastCall.ret = None /\ ~HasEv(trace, "print_error"))
        /\ ~lastCall.pre.mon.connected => lastCall.ret = False

C9_Witness ==
    /\ LastCallIs({"include_folder"})
    /\ lastCall.pre.mon.connected
    /\ lastCall.pre.mon.running
    /\ lastCall.pre.conf.excluded_folders # <<>>
    /\ ~InSeq(Lower(lastCall.arg), lastCall.pre.conf.excluded_folders)
    /\ HasEv(trace, "already_included")
    /\ lastCall.ret = None

\* C10: a constructor that runs connected with FIRST_SYNC true selects the
\* directory, then the folders, then resets cursor and lastsync, then downloads
\* everything; and when that download succeeds, lastsync is a timestamp when
\* the constructor returns.
C10_BootstrapSetsLastsync ==
    ( /\ Returned({"__init__"})
      /\ FIRST_SYNC
      /\ lastCall.pre.mon.connected
      /\ ~lastCall.env.flip_full ) =>
        /\ Before(trace, "ask_for_path", "list_folder")
        /\ Before(trace, "list_folder", "conf_set_cursor")
        /\ Before(trace, "conf_set_cursor", "conf_set_lastsync")
        /\ Before(trace, "conf_set_lastsync", "download_all")
        /\ conf.cursor = ""
        /\ lastCall.env.full = "ok" => Truthy(conf.lastsync)

\* C11: a constructor that bootstraps and whose full download fails (the
\* connected signal is clear when get_remote_dropbox reads it, or the download
\* raises a RequestException)
\* returns with lastsync None, so that the first-sync predicate is true of the
\* configuration it leaves.
C11_FailedBootstrapRetried ==
    ( /\ Returned({"__init__"})
      /\ FIRST_SYNC
      /\ (~mon.connected \/ lastCall.env.full = "RequestException") ) =>
        /\ conf.lastsync = None
        /\ first_sync(conf, fs)

C11_Witness ==
    /\ Returned({"__init__"})
    /\ FIRST_SYNC
    /\ lastCall.pre.mon.connected
    /\ lastCall.env.full = "RequestException"
    /\ HasEv(trace, "download_all")
    /\ fs[conf.path].kind = "dir"
    /\ conf.lastsync = None

\* The folders chosen in the select_excluded_folders call that has returned.
SelectChosen == AskFolders(RemoteFolders, lastCall.env.answers, <<>>).val

\* The connected signal was set when the call started and did not change
\* before any of its later reads.
StayedConnected ==
    /\ lastCall.pre.mon.connected
    /\ lastCall.env.flip = DefaultEnv.flip
    /\ ~lastCall.env.flip_full

\* select_excluded_folders has returned from a call outside first sync, made
\* while connected, whose listing succeeded.
SelectApplied ==
    /\ Returned({"select_excluded_folders"})
    /\ ~FIRST_SYNC
    /\ StayedConnected
    /\ lastCall.env.ls = "ok"

\* The first three parts of C12: exclude_folder for every chosen folder, all of
\* them before any download, one download for every folder that was excluded
\* and is not chosen.
SelectDiffOrder ==
    /\ \A f \in SeqToSet(SelectChosen) :
           \E i \in DOMAIN trace : trace[i] = Ev("set_local_rev", f)
    /\ \A i, j \in DOMAIN trace :
           (trace[i].ev = "set_local_rev" /\ trace[j].ev = "download") => i < j
    /\ \A f \in removed_folders(lastCall.pre.conf.excluded_folders, SelectChosen) :
           Cardinality({i \in DOMAIN trace : trace[i] = Ev("download", f)}) = 1

\* C12: select_excluded_folders outside first sync, connected, with old
\* excluded folders O and chosen folders N, calls exclude_folder for every
\* folder of N, only then include_folder with one download for every folder of
\* O minus N, downloads no folder of N, and leaves N as the persisted set.
C12_SelectionDiff ==
    SelectApplied =>
        /\ SelectDiffOrder
        /\ \A i \in DOMAIN trace :
               trace[i].ev = "download" =>
                   NormPath(trace[i].path) \notin SeqToSet(SelectChosen)
        /\ conf.excluded_folders = SelectChosen

\* The events of a call that write main.excluded_folders or main.path, or
\* delete or move something under the sync root.
ControllerWrites == {"conf_set_excluded_folders", "conf_set_path", "rmtree",
                     "rmtree_root", "move_root"}

\* The running signal at the time of the i-th event of the call: what the last
\* Monitor.start or Monitor.stop before it left, or what the call found.
RunningAt(tr, i) ==
    LET js == {j \in 1..(i - 1) : tr[j].ev \in {"monitor_start", "monitor_stop"}}
    IN IF js = {} THEN lastCall.pre.mon.running
       ELSE tr[CHOOSE j \in js : \A k \in js : k <= j].ev = "monitor_start"

\* C13: every write of main.excluded_folders or main.path and every deletion
\* or move under the sync root that a call makes happens while the running
\* signal is clear.
C13_WritesOnlyWhilePaused ==
    ~Idle => \A i \in DOMAIN trace :
                 trace[i].ev \in ControllerWrites => ~RunningAt(trace, i)

\* set_dropbox_directory(new_path) has been called with a path.
MovedTo(new_path) == LastCallIs({"set_dropbox_directory"}) /\ lastCall.arg = new_path

\* C14: set_dropbox_directory(new) with the old root a directory and new
\* another location ends with nothing at the old path, the old contents at
\* new (whatever was there is gone), main.path, the client's root and its
\* revision file at new; with new the old root itself nothing changes.
C14_Relocation ==
    \A new_path \in Locs :
        LET old_path == lastCall.pre.conf.path IN
        (MovedTo(new_path) /\ lastCall.pre.fs[old_path].kind = "dir") =>
            IF new_path # old_path
            THEN /\ lastCall.exc = "none"
                 /\ fs[old_path] = NoEntry
                 /\ fs[new_path] = lastCall.pre.fs[old_path]
                 /\ conf.path = new_path
                 /\ client.dropbox_path = new_path
                 /\ client.rev_file = new_path
            ELSE /\ lastCall.exc = "none"
                 /\ fs = lastCall.pre.fs
                 /\ conf = lastCall.pre.conf
                 /\ client = lastCall.pre.client
                 /\ revs = lastCall.pre.revs
                 /\ mon.running = lastCall.pre.mon.running

\* C15: something at the new path is never an error for
\* set_dropbox_directory, called directly or by the constructor: whether or
\* not the old root exists the call does not raise, and a call with a path
\* ends with a directory there and main.path naming it.
C15_ExistingDestinationNoError ==
    /\ LastCallIs({"set_dropbox_directory", "__init__"}) =>
           lastCall.exc \notin {"FileExistsError", "NotADirectoryError"}
    /\ \A new_path \in Locs :
           MovedTo(new_path) =>
               /\ lastCall.exc = "none"
               /\ fs[new_path].kind = "dir"
               /\ conf.path = new_path

\* C16: unlink marks sync as stopped by the user, stops the monitor and only
\* then calls the client's unlink; when it has returned the running signal is
\* clear and the files, main.path and the excluded folders are as before.
C16_UnlinkStopsFirst ==
    LastCallIs({"unlink"}) =>
        /\ lastCall.exc = "none"
        /\ trace = <<Ev("stopped_by_user", EmptyStr), Ev("monitor_stop", EmptyStr),
                     Ev("client_unlink", EmptyStr)>>
        /\ ~mon.running
        /\ mon.stopped_by_user
        /\ fs = lastCall.pre.fs
        /\ conf.path = lastCall.pre.conf.path
        /\ conf.excluded_folders = lastCall.pre.conf.excluded_folders

C16_Witness ==
    /\ LastCallIs({"unlink"})
    /\ lastCall.pre.mon.running
    /\ ~lastCall.pre.mon.stopped_by_user
    /\ ~mon.running
    /\ HasEv(trace, "client_unlink")
    /\ fs[conf.path].children # {}
    /\ conf.excluded_folders # <<>>

\* C17: pause_sync called again right after pause_sync leaves the state of the
\* first call (stopped by user, running signal clear), and resume_sync called
\* again right after resume_sync leaves the state of the first call (not
\* stopped by user, running signal set).
C17_PauseResumeIdempotent ==
    /\ LastCallIs({"pause_sync"}) =>
           LET second == pause_sync(Cur(DefaultEnv))
           IN /\ mon = [lastCall.pre.mon EXCEPT !.stopped_by_user = TRUE,
                                                !.running = FALSE]
              /\ second.mon = mon
              /\ second.conf = conf /\ second.client = client
              /\ second.fs = fs /\ second.revs = revs
    /\ LastCallIs({"resume_sync"}) =>
           LET second == resume_sync(Cur(DefaultEnv))
           IN /\ mon = [lastCall.pre.mon EXCEPT !.stopped_by_user = FALSE,
                                                !.running = TRUE]
              /\ second.mon = mon
              /\ second.conf = conf /\ second.client = client
              /\ second.fs = fs /\ second.revs = revs

C17_Witness ==
    /\ LastCallIs({"resume_sync"})
    /\ lastCall.pre.mon.running
    /\ ~lastCall.pre.mon.stopped_by_user
    /\ HasEv(trace, "monitor_start")
    /\ mon = lastCall.pre.mon

\* C18: every entry of the persisted excluded folders is lower-cased and
\* normalized, and no entry occurs twice.
C18_ExcludedFoldersNormalized ==
    \A i \in DOMAIN conf.excluded_folders :
        /\ Lower(conf.excluded_folders[i]) = conf.excluded_folders[i]
        /\ NormPath(conf.excluded_folders[i]) = conf.excluded_folders[i]
        /\ \A j \in DOMAIN conf.excluded_folders :
               i # j => conf.excluded_folders[i] # conf.excluded_folders[j]

\* The steps of the bootstrap that the trace records.
BootstrapEvents == {"ask_for_path", "list_folder", "conf_set_cursor",
                    "conf_set_lastsync", "download_all"}

\* C19: the constructor starts the monitor at most once and only as its last
\* step, after every bootstrap step; when it returns the monitor has been
\* started exactly if run is true, whether or not the download succeeded, and
\* with run false the running signal is clear.
C19_MonitorStartedLast ==
    LastCallIs({"__init__"}) =>
        /\ CountEv(trace, "monitor_start") <= 1
        /\ \A i \in DOMAIN trace :
               trace[i].ev = "monitor_start" =>
                   /\ i = Len(trace)
                   /\ \A j \in DOMAIN trace : trace[j].ev \in BootstrapEvents => j < i
        /\ lastCall.exc = "none" =>
               /\ HasEv(trace, "monitor_start") <=> lastCall.arg
               /\ mon.running <=> lastCall.arg
        /\ lastCall.exc # "none" => ~mon.running

C19_Witness ==
    /\ Returned({"__init__"})
    /\ FIRST_SYNC
    /\ lastCall.arg
    /\ lastCall.pre.mon.connected
    /\ lastCall.env.full = "RequestException"
    /\ Before(trace, "download_all", "monitor_start")
    /\ mon.running

\* C20: a select_excluded_folders call made after the constructor has
\* returned, connected and with a listing, applies the changes whether or not
\* the constructor of this process bootstrapped: exclude_folder for every
\* chosen folder, and a download of every folder that was excluded and is not
\* chosen.
C20_SelectAppliesAfterConstruction ==
    ( /\ Returned({"select_excluded_folders"})
      /\ StayedConnected
      /\ lastCall.env.ls = "ok" ) =>
        /\ \A f \in SeqToSet(SelectChosen) :
               \E i \in DOMAIN trace : trace[i] = Ev("set_local_rev", f)
        /\ \A f \in removed_folders(lastCall.pre.conf.excluded_folders, SelectChosen) :
               \E i \in DOMAIN trace :
                   trace[i].ev = "download" /\ NormPath(trace[i].path) = NormPath(f)

====
